---- MODULE Spec2Model ----
(***************************************************************************)
(* Model of the market-data bridge of Alpha_V1:                            *)
(*   electron/src/main/PolygonBridge.js  (sockets, registry, reconnection) *)
(*   electron/src/main/IPCHandler.js     (one-shot requests, cleanup)      *)
(*   electron/main.js                    (before-quit shutdown sequence)   *)
(*                                                                         *)
(* One action is one turn of the Node.js event loop: a handler together    *)
(* with the promise continuations (microtasks) it makes runnable.          *)
(* The variable out lists what that turn did to the outside world, in      *)
(* order: sockets created, frames written, events emitted, timers set.     *)
(***************************************************************************)
EXTENDS Integers, Sequences, FiniteSets, TLC

\* ---------------------------------------------------------------- bounds
MaxSubIds == 3           \* subscribe requests the UI layer makes
MaxSockets == 2          \* sockets alive at the same time
MaxTimers == 1           \* reconnect timers pending at the same time
MaxTimersDefault == 5    \* the same, in the run with the default options
MaxOver == 2             \* calls counted beyond maxReconnectAttempts
OptMaxReconnectAttempts == 2   \* options.maxReconnectAttempts of Spec
MaxOps == 1              \* one-shot requests (operationIds)
MaxArrivals == 2         \* inbound messages a run with a log keeps
MaxClock == 1            \* milliseconds the clock advances in a run
MaxProbes == 2           \* initialize() calls awaiting the health probe at once
MaxListeners == 2        \* registrations of the bridge's listeners at once

\* ------------------------------------------------------ program constants
DefaultMaxReconnectAttempts == 10
DefaultReconnectInterval == 5000
BackoffCap == 30000

SubIds == 1..MaxSubIds
SockIds == 1..MaxSockets
OpIds == 1..MaxOps
Symbols == {"AAPL", "MSFT"}

\* The subscribe requests of the model: request i comes from window WindowOf(i)
\* (the first two from window 1, the others from window 2) for stream
\* StreamOf(i) and symbols SymbolsOf(i).
WindowOf(i) == IF i <= 2 THEN 1 ELSE 2
StreamOf(i) == IF i % 2 = 1 THEN "trades" ELSE "bars"
SymbolsOf(i) ==
    CASE i % 3 = 1 -> {"AAPL"}
      [] i % 3 = 2 -> {"AAPL", "MSFT"}
      [] OTHER     -> {"MSFT"}
WindowIds == {WindowOf(i) : i \in SubIds}

VARIABLES
    scenario,           \* what the environment does in this run (never changes)
    options,            \* constructor options: maxReconnectAttempts, reconnectInterval
    initialized,        \* this.initialized
    listening,          \* how many times the bridge's three listeners are
                        \* registered on the ipcHandler (setupEventListeners calls
                        \* not yet taken back)
    probes,             \* initialize() calls that await the health probe
    now,                \* the clock that Date.now() reads
    wsConnections,      \* this.wsConnections: clientId -> socket (0: no entry)
    subscriptions,      \* this.subscriptions: entries in Map insertion order
    reconnectAttempts,  \* this.reconnectAttempts: clientId -> count (0: no entry)
    socks,              \* the WebSocket objects and the promise each was created for
    timers,             \* pending reconnect timers (setTimeout of handleWebSocketReconnection)
    pendingOperations,  \* IPCHandler.pendingOperations
    requests,           \* per operationId: the data:request handler's position,
                        \* the runs of handleDataRequest started for it and
                        \* still fetching, the upstream calls issued for it
    quit,               \* app.exit was called
    sinceOpen,          \* history: per clientId, the timers set and the
                        \* reconnection-failed events since its last open
    handlers,           \* IPCHandler: the ipcMain handlers and the listeners are in place
    history,            \* history: what was requested and delivered (see Requested, Arrived)
    last,               \* the handler run by the last turn
    out                 \* what the last turn did, in order

vars == <<scenario, options, initialized, listening, probes, now, wsConnections, subscriptions,
          reconnectAttempts, socks, timers, pendingOperations, requests,
          quit, sinceOpen, handlers, history, last, out>>

\* ---------------------------------------------------------------- helpers
Min(a, b) == IF a < b THEN a ELSE b

RECURSIVE SeqToSet(_)
SeqToSet(s) == IF s = <<>> THEN {} ELSE {Head(s)} \cup SeqToSet(Tail(s))

\* const clientId = `window-${windowId}`
ClientIdOf(windowId) == <<"window", windowId>>

ClientIds == {ClientIdOf(w) : w \in WindowIds}

\* the channelMap table, and its || ['T'] fallback
\* channelMap is an object literal, so channelMap[stream] also finds the
\* members every object inherits from Object.prototype; they are truthy and
\* are returned in place of the default
ObjectPrototypeKeys ==
    {"constructor", "toString", "valueOf", "hasOwnProperty", "isPrototypeOf",
     "propertyIsEnumerable", "toLocaleString", "__proto__"}

\* the inherited member found under a key: a function or the prototype
\* object, never a list of channels
InheritedMember(key) == <<"Object.prototype", key>>

mapStreamToChannels(stream) ==
    CASE stream = "trades"  -> <<"T">>
      [] stream = "quotes"  -> <<"Q">>
      [] stream = "bars"    -> <<"A", "AM">>
      [] stream = "updates" -> <<"T", "Q", "A">>
      [] stream \in ObjectPrototypeKeys -> InheritedMember(stream)
      [] OTHER              -> <<"T">>

\* a doubling backoff under the same cap, which C6 tells from the real one
BackoffDoubling(attempts) ==
    Min(options.reconnectInterval * 2^(attempts - 1), BackoffCap)

\* Math.min(this.reconnectInterval * attempts, 30000)
BackoffDelay(attempts) ==
    Min(options.reconnectInterval * attempts, BackoffCap)

\* ---------------------------------------------------- the subscription Map
HasSub(subs, id) == \E i \in 1..Len(subs) : subs[i].subscriptionId = id

GetSub(subs, id) ==
    subs[CHOOSE i \in 1..Len(subs) : subs[i].subscriptionId = id]

\* Map.delete
MapDelete(subs, id) == SelectSeq(subs, LAMBDA e : e.subscriptionId # id)

\* Map.set: an existing key keeps its place, a new key goes last
MapSet(subs, e) ==
    IF HasSub(subs, e.subscriptionId)
    THEN [i \in 1..Len(subs) |->
             IF subs[i].subscriptionId = e.subscriptionId THEN e ELSE subs[i]]
    ELSE Append(subs, e)

\* Array.from(this.subscriptions.values()).filter(sub => sub.clientId === clientId)
SubsOfClient(subs, clientId) == SelectSeq(subs, LAMBDA e : e.clientId = clientId)

SubIdsOf(subs) == {subs[i].subscriptionId : i \in 1..Len(subs)}

\* ------------------------------------------------------------ the sockets
NoSock == [st |-> "NONE", key |-> <<>>, kind |-> "none", promise |-> "none",
           closedBy |-> "none", req |-> <<>>, snap |-> <<>>,
           chain |-> {}, atClose |-> {}, drained |-> FALSE]

Live(s) == socks[s].st # "NONE"

FreeSocks == {s \in SockIds : ~Live(s)}

NewSockId == CHOOSE s \in FreeSocks : \A t \in FreeSocks : s <= t

\* ------------------------------------------------- what a turn did (out)
NewSocketOut(s, clientId, by) ==
    [kind |-> "new-socket", sock |-> s, clientId |-> clientId, by |-> by]

FrameOut(s, rs, msg) == [kind |-> "frame", sock |-> s, rs |-> rs, msg |-> msg]

EventOut(name, payload) == [kind |-> "event", name |-> name, payload |-> payload]

TimerOut(t) == [kind |-> "set-timer", timer |-> t]

\* { action: 'subscribe', symbols, channels: this.mapStreamToChannels(stream) }
SubscribeMessage(symbols, stream) ==
    [action |-> "subscribe", symbols |-> symbols,
     channels |-> mapStreamToChannels(stream)]

\* { action: 'unsubscribe', symbols }
UnsubscribeMessage(symbols) == [action |-> "unsubscribe", symbols |-> symbols]


\* ------------------------------------------------- reconnection history
\* Bookkeeping for stating the replay and cancellation claims; the program
\* has no such fields.  chain: the subscriptionIds registered when the retry
\* cycle began and neither removed nor replaced since.  atClose: the registry
\* entries of the clientId when the cycle began.  drained: an unsubscribe
\* removed the clientId's last subscription while the timer was pending.
NewCycle(subs, clientId) ==
    IF scenario.track
    THEN [chain |-> SubIdsOf(SubsOfClient(subs, clientId)),
          atClose |-> SeqToSet(SubsOfClient(subs, clientId))]
    ELSE [chain |-> {}, atClose |-> {}]

SameCycle(sock) == [chain |-> sock.chain, atClose |-> sock.atClose]

CycleOf(sock, subs) ==
    IF sock.kind = "reconnect" /\ sock.promise # "resolved"
    THEN SameCycle(sock) ELSE NewCycle(subs, sock.key)

\* a counter that skips a number and an open that keeps the count, which C18
\* tells from the real ones
NextAttemptSkipping(count) == count + 2

\* (this.reconnectAttempts.get(clientId) || 0) + 1
NextAttempt(count) == count + 1

\* this.reconnectAttempts.delete(clientId)
ResetAttempts(ra, clientId) == [ra EXCEPT ![clientId] = 0]

\* a reconnection that does not look for active subscriptions, which C15
\* tells from the real one
reconnectionUnconditional(b, clientId, subs, cycle) ==
    LET attempts == b.ra[clientId] + 1
        timer == [clientId |-> clientId, attempts |-> attempts,
                  delay |-> Min(options.reconnectInterval * attempts, BackoffCap),
                  snap |-> SubsOfClient(subs, clientId),
                  chain |-> cycle.chain, atClose |-> cycle.atClose,
                  drained |-> FALSE]
    IN  IF attempts > options.maxReconnectAttempts
        THEN [b EXCEPT !.ra[clientId] = attempts,
                       !.out = Append(@, EventOut("reconnection-failed",
                                   [clientId |-> clientId, attempts |-> attempts]))]
        ELSE [b EXCEPT !.ra[clientId] = attempts,
                       !.timers = Append(@, timer),
                       !.out = Append(@, TimerOut(timer))]

\* a close handler that never reconnects, which C12 tells from the real one
reconnectionSkipped(b, clientId, subs, cycle) == b

\* ------------------------------------- handleWebSocketReconnection(clientId)
\* b: the fields the routine reads and writes, [ra, timers, out]; subs: the
\* registry at the time of the call; cycle: the history of the caller.
handleWebSocketReconnection(b, clientId, subs, cycle) ==
    LET activeSubscriptions == SubsOfClient(subs, clientId)
        attempts == NextAttempt(b.ra[clientId])
        timer == [clientId |-> clientId, attempts |-> attempts,
                  delay |-> BackoffDelay(attempts),
                  snap |-> activeSubscriptions,
                  chain |-> cycle.chain, atClose |-> cycle.atClose,
                  drained |-> FALSE]
    IN  IF Len(activeSubscriptions) = 0 THEN b
        ELSE IF attempts > options.maxReconnectAttempts
        THEN [b EXCEPT !.ra[clientId] = attempts,
                       !.out = Append(@, EventOut("reconnection-failed",
                                   [clientId |-> clientId, attempts |-> attempts]))]
        ELSE [b EXCEPT !.ra[clientId] = attempts,
                       !.timers = Append(@, timer),
                       !.out = Append(@, TimerOut(timer))]

\* the model's caps on the unbounded counter and on the pending timers
WithinCaps(b) ==
    /\ Len(b.timers) <= scenario.maxTimers
    /\ \A c \in ClientIds : b.ra[c] <= options.maxReconnectAttempts + MaxOver

Bridge(o) == [ra |-> reconnectAttempts, timers |-> timers, out |-> o]

\* history: count what a turn's reconnection calls did for clientId c
TimersSet(o, c) ==
    Cardinality({j \in 1..Len(o) : o[j].kind = "set-timer" /\ o[j].timer.clientId = c})

FailedEvents(o, c) ==
    Cardinality({j \in 1..Len(o) : /\ o[j].kind = "event"
                                   /\ o[j].name = "reconnection-failed"
                                   /\ o[j].payload.clientId = c})

Counted(o) ==
    [c \in ClientIds |-> [timers |-> sinceOpen[c].timers + TimersSet(o, c),
                          failed |-> sinceOpen[c].failed + FailedEvents(o, c)]]

\* a registry entry stops being "the same subscription" when it is removed
\* or replaced: drop its id from every cycle's chain
Prune(chain, ids) == chain \ ids

PruneTimers(tm, ids) ==
    [i \in 1..Len(tm) |-> [tm[i] EXCEPT !.chain = Prune(@, ids)]]

PruneSocks(sk, ids) ==
    [s \in SockIds |-> [sk[s] EXCEPT !.chain = Prune(@, ids)]]

\* ------------------------------------------------------ delivery history
\* Bookkeeping for stating the delivery claims; the program has no such
\* fields, and a run keeps them only if its scenario asks for it.
\* unsubscribed: the subscriptionIds for which an unsubscribe request has been
\* processed and that have not been requested again since.  log: the inbound
\* messages and the market-data events, in the order in which they happened.
Keeps(what) == "keep" \in DOMAIN scenario /\ scenario.keep = what

Requested(h, id) ==
    IF Keeps("unsubscribed") THEN [h EXCEPT !.unsubscribed = @ \ {id}] ELSE h

Unsubscribed(h, id) ==
    IF Keeps("unsubscribed") THEN [h EXCEPT !.unsubscribed = @ \cup {id}] ELSE h

ArrivalOf(s, message) ==
    [kind |-> "arrival", sock |-> s, message |-> message,
     registered |-> SeqToSet(SubsOfClient(subscriptions, socks[s].key))]

\* the events a message callback emitted; cause is the place of its message
\* in the log
DeliveriesOf(o, cause) ==
    [j \in 1..Len(o) |->
        [kind |-> "delivery", cause |-> cause, payload |-> o[j].payload]]

Arrived(h, s, message, o) ==
    IF Keeps("log")
    THEN [h EXCEPT !.log = (@ \o <<ArrivalOf(s, message)>>)
                            \o DeliveriesOf(o, Len(h.log) + 1)]
    ELSE h

Arrivals(h) == {i \in 1..Len(h.log) : h.log[i].kind = "arrival"}

\* the model's cap on the length of the log
ArrivalAllowed == Keeps("log") => Cardinality(Arrivals(history)) < MaxArrivals

\* ------------------------------------------------------------ initial state
InitBridge ==
    /\ initialized = FALSE
    /\ listening = 0
    /\ probes = 0
    /\ now = 0
    /\ wsConnections = [c \in ClientIds |-> 0]
    /\ subscriptions = <<>>
    /\ reconnectAttempts = [c \in ClientIds |-> 0]
    /\ socks = [s \in SockIds |-> NoSock]
    /\ timers = <<>>
    /\ pendingOperations = {}
    /\ requests = [o \in OpIds |-> [ipc |-> "idle", bridge |-> "none",
                                     runs |-> 0, left |-> 0, calls |-> 0]]
    /\ quit = FALSE
    /\ handlers = TRUE
    /\ history = [unsubscribed |-> {}, log |-> <<>>]
    /\ sinceOpen = [c \in ClientIds |-> [timers |-> 0, failed |-> 0]]
    /\ last = [op |-> "constructor"]
    /\ out = <<>>

\* ------------------------------------------------------------- initialize()
\* initialize() whose health probe passes before anything else happens:
\* setupEventListeners, initialized = true, emit('ready')
InitializeOk ==
    /\ ~quit /\ ~initialized
    /\ initialized' = TRUE
    /\ listening' = listening + 1
    /\ last' = [op |-> "initialize"]
    /\ out' = <<EventOut("ready", <<>>)>>
    /\ UNCHANGED <<scenario, options, now, probes, handlers, history, wsConnections, subscriptions, reconnectAttempts,
                   socks, timers, pendingOperations, requests, quit, sinceOpen>>

\* initialize() up to its await of the health probe: it returns at once if
\* this.initialized is set, which it is only after a probe has passed
InitializeCall ==
    /\ ~quit
    /\ probes < MaxProbes
    /\ probes' = IF initialized THEN probes ELSE probes + 1
    /\ last' = [op |-> "initialize-call", returned |-> initialized]
    /\ out' = <<>>
    /\ UNCHANGED <<scenario, options, now, handlers, history, initialized, listening,
                   wsConnections, subscriptions, reconnectAttempts, socks, timers,
                   pendingOperations, requests, quit, sinceOpen>>

\* the health probe of one initialize() passes: setupEventListeners,
\* initialized = true, emit('ready')
ProbePasses ==
    /\ ~quit
    /\ probes > 0
    /\ listening < MaxListeners
    /\ probes' = probes - 1
    /\ initialized' = TRUE
    /\ listening' = listening + 1
    /\ last' = [op |-> "initialize"]
    /\ out' = <<EventOut("ready", <<>>)>>
    /\ UNCHANGED <<scenario, options, now, handlers, history, wsConnections, subscriptions,
                   reconnectAttempts, socks, timers, pendingOperations, requests,
                   quit, sinceOpen>>

\* the health probe of one initialize() fails: the call throws
ProbeFails ==
    /\ ~quit
    /\ probes > 0
    /\ probes' = probes - 1
    /\ last' = [op |-> "initialize-failed"]
    /\ out' = <<>>
    /\ UNCHANGED <<scenario, options, now, handlers, history, initialized, listening,
                   wsConnections, subscriptions, reconnectAttempts, socks, timers,
                   pendingOperations, requests, quit, sinceOpen>>

\* an initialize() that goes on after a failed probe, which C16 tells from
\* the real one
initializeRegardless(probeOk) ==
    [initialized |-> TRUE, listening |-> listening + 1,
     out |-> <<EventOut("ready", <<>>)>>]

\* initialize() from the health probe on: verifyServerConnection throws if the
\* probe fails, and the catch rethrows before anything is set up
initialize(probeOk) ==
    IF probeOk
    THEN [initialized |-> TRUE, listening |-> listening + 1,
          out |-> <<EventOut("ready", <<>>)>>]
    ELSE [initialized |-> initialized, listening |-> listening, out |-> <<>>]

\* initialize() when the health probe fails
InitializeFail ==
    /\ ~quit /\ ~initialized
    /\ initialized' = initialize(FALSE).initialized
    /\ listening' = initialize(FALSE).listening
    /\ out' = initialize(FALSE).out
    /\ last' = [op |-> "initialize-failed"]
    /\ UNCHANGED <<scenario, options, now, probes, handlers, history, wsConnections, subscriptions,
                   reconnectAttempts, socks, timers, pendingOperations, requests,
                   quit, sinceOpen>>

\* ------------------------------------------------------ handleDataSubscribe
SubEntry(id, w, stream, symbols) ==
    [subscriptionId |-> id, clientId |-> ClientIdOf(w), windowId |-> w,
     stream |-> stream, symbols |-> symbols]

\* the code after the connection is there: send, record, emit
SubscribeTail(s, rs, e) ==
    <<FrameOut(s, rs, SubscribeMessage(e.symbols, e.stream)),
      EventOut("subscription-created",
               [subscriptionId |-> e.subscriptionId, windowId |-> e.windowId,
                symbols |-> e.symbols])>>

\* a test that takes any socket of the map, whatever its readyState, which
\* C27 tells from the real one
MappedSocket(clientId) == wsConnections[clientId] # 0

\* is the map's socket usable: ws && ws.readyState === WebSocket.OPEN
UsableSocket(clientId) ==
    /\ wsConnections[clientId] # 0
    /\ socks[wsConnections[clientId]].st = "OPEN"

NeedsNewSocket(clientId) == ~UsableSocket(clientId)

\* handleDataSubscribe from its start to its await of a new connection, or
\* to its end if the map's socket is usable; after is what the emitter of
\* the event does once the handler has returned
handleDataSubscribe(e, after) ==
    LET clientId == e.clientId
        ws == wsConnections[clientId]
        id == e.subscriptionId
    IN  /\ IF NeedsNewSocket(clientId)
           THEN /\ FreeSocks # {}
                /\ socks' = [socks EXCEPT ![NewSockId] =
                       [NoSock EXCEPT !.st = "CONNECTING", !.key = clientId,
                                      !.kind = "subscribe", !.promise = "pending",
                                      !.req = e]]
                /\ out' = <<NewSocketOut(NewSockId, clientId, "subscribe")>> \o after
                /\ UNCHANGED <<subscriptions, timers>>
           ELSE /\ out' = SubscribeTail(ws, socks[ws].st, e) \o after
                /\ subscriptions' = MapSet(subscriptions, e)
                /\ timers' = PruneTimers(timers, {id})
                /\ socks' = PruneSocks(socks, {id})
        /\ history' = Requested(history, id)

\* the n lowest free sockets, in the order in which n calls of
\* createWebSocketConnection take them
FirstFree(n) == {s \in FreeSocks : Cardinality({t \in FreeSocks : t < s}) < n}

RECURSIVE Ascending(_)
Ascending(set) ==
    IF set = {} THEN <<>>
    ELSE LET s == CHOOSE x \in set : \A y \in set : x <= y
         IN  <<s>> \o Ascending(set \ {s})

RECURSIVE Repeated(_, _)
Repeated(seq, n) == IF n = 0 THEN <<>> ELSE seq \o Repeated(seq, n - 1)

\* emit('data-subscribe', e) on an emitter that holds n registrations of
\* handleDataSubscribe: the emitter calls the handler n times in a row, each
\* call running to its await or to its end before the next begins.  No call
\* changes what the next one tests (the map is written in 'open' only), so
\* either every call creates a socket or every call sends on the map's.
emitDataSubscribe(e, n, after) ==
    LET clientId == e.clientId
        ws == wsConnections[clientId]
        id == e.subscriptionId
        created == Ascending(FirstFree(n))
    IN  IF n = 0
        THEN /\ out' = after
             /\ UNCHANGED <<socks, subscriptions, timers, history>>
        ELSE IF n = 1
        THEN handleDataSubscribe(e, after)
        ELSE /\ IF NeedsNewSocket(clientId)
                THEN /\ Cardinality(FreeSocks) >= n
                     /\ socks' = [s \in SockIds |->
                            IF s \in FirstFree(n)
                            THEN [NoSock EXCEPT !.st = "CONNECTING", !.key = clientId,
                                                !.kind = "subscribe",
                                                !.promise = "pending", !.req = e]
                            ELSE socks[s]]
                     /\ out' = [j \in 1..n |->
                                   NewSocketOut(created[j], clientId, "subscribe")]
                               \o after
                     /\ UNCHANGED <<subscriptions, timers>>
                ELSE /\ out' = Repeated(SubscribeTail(ws, socks[ws].st, e), n) \o after
                     /\ subscriptions' = MapSet(subscriptions, e)
                     /\ timers' = PruneTimers(timers, {id})
                     /\ socks' = PruneSocks(socks, {id})
             /\ history' = Requested(history, id)

HandleDataSubscribe(id, w, stream, symbols) ==
    /\ ~quit /\ handlers /\ listening > 0
    /\ id \in scenario.subIds
    /\ last' = [op |-> "subscribe"]
    /\ handleDataSubscribe(SubEntry(id, w, stream, symbols), <<>>)
    /\ UNCHANGED <<scenario, options, now, probes, handlers, initialized, listening, wsConnections,
                   reconnectAttempts, pendingOperations, requests, quit, sinceOpen>>

\* ------------------------------------- IPCHandler: the data:subscribe handler
ValidStreams == {"trades", "quotes", "bars", "updates"}

\* a validation that lets every stream pass, which C21 tells from the real
\* one
AnyStream(stream) == TRUE

\* ['trades', 'quotes', 'bars', 'updates'].includes(stream)
ValidStream(stream) == stream \in ValidStreams

\* `${windowId}-${stream}-${Date.now()}`
SubscriptionIdAt(windowId, stream, clock) == <<windowId, stream, clock>>

NoSubscriptionId == <<>>

SubscribeReturn(success, value) ==
    [kind |-> "return", success |-> success, value |-> value]

\* the data:subscribe handler: validate the stream, make the subscriptionId,
\* emit('data-subscribe') (the bridge's handler runs once for each time it
\* is registered), return the subscriptionId
DataSubscribe(w, stream, symbols) ==
    LET id == SubscriptionIdAt(w, stream, now)
    IN  /\ ~quit /\ handlers
        /\ IF ~ValidStream(stream)
           THEN /\ last' = [op |-> "data:subscribe", windowId |-> w,
                            stream |-> stream, success |-> FALSE,
                            subscriptionId |-> NoSubscriptionId]
                /\ out' = <<SubscribeReturn(FALSE, "Invalid stream type")>>
                /\ UNCHANGED <<socks, subscriptions, timers, history>>
           ELSE /\ last' = [op |-> "data:subscribe", windowId |-> w,
                            stream |-> stream, success |-> TRUE,
                            subscriptionId |-> id]
                /\ emitDataSubscribe(SubEntry(id, w, stream, symbols), listening,
                                     <<SubscribeReturn(TRUE, id)>>)
        /\ UNCHANGED <<scenario, options, now, probes, handlers, initialized, listening,
                       wsConnections, reconnectAttempts, pendingOperations,
                       requests, quit, sinceOpen>>

\* time passes: the next Date.now() reads a later millisecond
Tick ==
    /\ ~quit
    /\ now < MaxClock
    /\ now' = now + 1
    /\ last' = [op |-> "tick"]
    /\ out' = <<>>
    /\ UNCHANGED <<scenario, options, probes, handlers, history, initialized, listening,
                   wsConnections, subscriptions, reconnectAttempts, socks, timers,
                   pendingOperations, requests, quit, sinceOpen>>


\* ---------------------------------------------------- handleDataUnsubscribe
\* ws.close() as the ws library does it on a socket that has opened
CloseSocket(sk, s, by) ==
    IF sk[s].st = "OPEN"
    THEN [sk EXCEPT ![s].st = "CLOSING", ![s].closedBy = by]
    ELSE sk

\* a test that never finds another subscription, which C30 tells from the
\* real one
noMoreSubscriptions(subs, clientId) == FALSE

\* Array.from(this.subscriptions.values()).some(sub => sub.clientId === clientId)
hasMoreSubscriptions(subs, clientId) == Len(SubsOfClient(subs, clientId)) > 0

MarkDrained(tm, clientId) ==
    [i \in 1..Len(tm) |->
        IF scenario.track /\ tm[i].clientId = clientId
        THEN [tm[i] EXCEPT !.drained = TRUE] ELSE tm[i]]

\* a lookup that falls back to the registry's first entry, which C38 tells
\* from the real one
getOrFirst(subs, id) ==
    IF HasSub(subs, id) THEN <<GetSub(subs, id)>>
    ELSE IF subs # <<>> THEN <<Head(subs)>> ELSE <<>>

\* this.subscriptions.get(subscriptionId): the entry, or nothing (undefined)
MapGet(subs, id) == IF HasSub(subs, id) THEN <<GetSub(subs, id)>> ELSE <<>>

HandleDataUnsubscribe(id) ==
    /\ ~quit /\ handlers /\ listening > 0
    /\ id \in scenario.subIds
    /\ IF MapGet(subscriptions, id) = <<>>
       THEN /\ last' = [op |-> "unsubscribe-unknown", subscriptionId |-> id]
            /\ out' = <<>>
            /\ UNCHANGED <<subscriptions, wsConnections, socks, timers>>
       ELSE LET subscription == MapGet(subscriptions, id)[1]
                clientId == subscription.clientId
                ws == wsConnections[clientId]
                rest == MapDelete(subscriptions, id)
                more == hasMoreSubscriptions(rest, clientId)
                sk == PruneSocks(socks, {id})
                tm == PruneTimers(timers, {id})
            IN  /\ last' = [op |-> "unsubscribe", subscriptionId |-> id,
                            clientId |-> clientId, drains |-> ~more,
                            open |-> IF UsableSocket(clientId) THEN ws ELSE 0]
                /\ out' = IF UsableSocket(clientId)
                          THEN <<FrameOut(ws, socks[ws].st,
                                          UnsubscribeMessage(subscription.symbols))>>
                          ELSE <<>>
                /\ subscriptions' = rest
                /\ IF ~more /\ ws # 0
                   THEN /\ socks' = CloseSocket(sk, ws, "idle")
                        /\ wsConnections' = [wsConnections EXCEPT ![clientId] = 0]
                   ELSE /\ socks' = sk
                        /\ UNCHANGED wsConnections
                /\ timers' = IF more THEN tm ELSE MarkDrained(tm, clientId)
    /\ history' = Unsubscribed(history, id)
    /\ UNCHANGED <<scenario, options, now, probes, handlers, initialized, listening, reconnectAttempts,
                   pendingOperations, requests, quit, sinceOpen>>

\* ------------------------------------------- createWebSocketConnection: open
\* a replay that stops after the first subscription, which C5 tells from the
\* real one
ReplayFirstOnly(s, snap) ==
    IF snap = <<>> THEN <<>>
    ELSE <<FrameOut(s, "OPEN", SubscribeMessage(Head(snap).symbols,
                                                  Head(snap).stream))>>

\* the frames the timer callback writes once its socket is open
RECURSIVE ReplayFrames(_, _)
ReplayFrames(s, snap) ==
    IF snap = <<>> THEN <<>>
    ELSE <<FrameOut(s, "OPEN", SubscribeMessage(Head(snap).symbols,
                                                  Head(snap).stream))>>
         \o ReplayFrames(s, Tail(snap))

\* ws.on('open'): store the socket, forget the attempt count, resolve; then the
\* caller that awaited the socket runs on
SocketOpen(s) ==
    LET k == socks[s].key
        opened == [socks EXCEPT ![s].st = "OPEN", ![s].promise = "resolved"]
    IN  /\ ~quit
        /\ socks[s].st = "CONNECTING"
        /\ wsConnections' = [wsConnections EXCEPT ![k] = s]
        /\ reconnectAttempts' = ResetAttempts(reconnectAttempts, k)
        /\ last' = [op |-> "open", sock |-> s, kind |-> socks[s].kind,
                    chain |-> socks[s].chain, atClose |-> socks[s].atClose,
                    drained |-> socks[s].drained]
        /\ IF socks[s].kind = "subscribe"
           THEN /\ out' = SubscribeTail(s, opened[s].st, socks[s].req)
                /\ subscriptions' = MapSet(subscriptions, socks[s].req)
                /\ timers' = PruneTimers(timers, {socks[s].req.subscriptionId})
                /\ socks' = PruneSocks(opened, {socks[s].req.subscriptionId})
           ELSE /\ out' = ReplayFrames(s, socks[s].snap)
                /\ socks' = opened
                /\ UNCHANGED <<subscriptions, timers>>
        /\ sinceOpen' = [sinceOpen EXCEPT ![k] = [timers |-> 0, failed |-> 0]]
        /\ UNCHANGED <<scenario, options, now, probes, handlers, history, initialized, listening, pendingOperations,
                       requests, quit>>

\* the continuation of the caller whose await was rejected
RejectedTail(b, sock, subs) ==
    IF sock.kind = "subscribe"
    THEN [b EXCEPT !.out = Append(@, EventOut("subscription-error",
                               [subscriptionId |-> sock.req.subscriptionId]))]
    ELSE handleWebSocketReconnection(b, sock.key, subs, SameCycle(sock))

\* a timeout callback that rejects and leaves the socket as it is, which C19
\* tells from the real one
RejectWithoutClose(sock) == [sock EXCEPT !.promise = "rejected"]

\* the timeout callback on its socket: ws.close() on a socket that is still
\* connecting aborts the handshake (CLOSING, 'error' and 'close' follow in a
\* later turn), and reject(new Error('WebSocket connection timeout'))
AbortOnTimeout(sock) ==
    [sock EXCEPT !.st = "CLOSING", !.promise = "rejected",
                 !.closedBy = "timeout"]

\* the 5000 ms connection timeout: ws.close(); reject(...)
ConnectTimeout(s) ==
    LET b == RejectedTail(Bridge(<<>>), socks[s], subscriptions)
    IN  /\ ~quit
        /\ socks[s].st = "CONNECTING"
        /\ WithinCaps(b)
        /\ socks' = [socks EXCEPT ![s] = AbortOnTimeout(socks[s])]
        /\ reconnectAttempts' = b.ra
        /\ timers' = b.timers
        /\ out' = b.out
        /\ sinceOpen' = Counted(b.out)
        /\ last' = [op |-> "connect-timeout"]
        /\ UNCHANGED <<scenario, options, now, probes, handlers, history, initialized, listening, wsConnections,
                       subscriptions, pendingOperations, requests, quit>>

\* ws.on('close'): this.wsConnections.delete(clientId); handleWebSocketReconnection
CloseHandler(b, sock, subs) ==
    handleWebSocketReconnection(b, sock.key, subs, CycleOf(sock, subs))

\* a socket that never opened fails: 'error' (reject), then 'close', then the
\* rejected caller runs on
SocketFail(s) ==
    LET b1 == CloseHandler(Bridge(<<>>), socks[s], subscriptions)
        b == IF socks[s].promise = "pending"
             THEN RejectedTail(b1, socks[s], subscriptions) ELSE b1
    IN  /\ ~quit
        /\ socks[s].st \in {"CONNECTING", "CLOSING"}
        /\ socks[s].promise # "resolved"
        /\ WithinCaps(b)
        /\ wsConnections' = [wsConnections EXCEPT ![socks[s].key] = 0]
        /\ socks' = [socks EXCEPT ![s] = NoSock]
        /\ reconnectAttempts' = b.ra
        /\ timers' = b.timers
        /\ out' = b.out
        /\ sinceOpen' = Counted(b.out)
        /\ last' = [op |-> "fail"]
        /\ UNCHANGED <<scenario, options, now, probes, handlers, history, initialized, listening, subscriptions,
                       pendingOperations, requests, quit>>

\* the peer starts the closing handshake: the socket's readyState is CLOSING
\* from its close frame on, and 'close' is emitted in a later turn; until
\* then the socket stays in the map and no callback of the bridge runs
CloseFrameReceived(s) ==
    /\ ~quit
    /\ socks[s].st = "OPEN"
    /\ socks' = [socks EXCEPT ![s].st = "CLOSING", ![s].closedBy = "peer"]
    /\ out' = <<>>
    /\ last' = [op |-> "close-frame", sock |-> s]
    /\ UNCHANGED <<scenario, options, now, probes, handlers, history, initialized, listening, wsConnections,
                   subscriptions, reconnectAttempts, timers, pendingOperations,
                   requests, quit, sinceOpen>>

\* a socket that had opened closes: ws.on('close')
SocketClose(s) ==
    LET b == CloseHandler(Bridge(<<>>), socks[s], subscriptions)
    IN  /\ ~quit
        /\ socks[s].st \in {"OPEN", "CLOSING"}
        /\ socks[s].promise = "resolved"
        /\ WithinCaps(b)
        /\ wsConnections' = [wsConnections EXCEPT ![socks[s].key] = 0]
        /\ socks' = [socks EXCEPT ![s] = NoSock]
        /\ reconnectAttempts' = b.ra
        /\ timers' = b.timers
        /\ out' = b.out
        /\ sinceOpen' = Counted(b.out)
        /\ last' = [op |-> "close", closedBy |-> socks[s].closedBy]
        /\ UNCHANGED <<scenario, options, now, probes, handlers, history, initialized, listening, subscriptions,
                       pendingOperations, requests, quit>>

\* the reconnect timer fires: createWebSocketConnection(clientId)
RemoveAt(seq, i) == SubSeq(seq, 1, i - 1) \o SubSeq(seq, i + 1, Len(seq))

TimerFire(i) ==
    /\ ~quit
    /\ i \in 1..Len(timers)
    /\ FreeSocks # {}
    /\ timers' = RemoveAt(timers, i)
    /\ socks' = [socks EXCEPT ![NewSockId] =
           [NoSock EXCEPT !.st = "CONNECTING", !.key = timers[i].clientId,
                          !.kind = "reconnect", !.promise = "pending",
                          !.snap = timers[i].snap,
                          !.chain = timers[i].chain,
                          !.atClose = timers[i].atClose,
                          !.drained = timers[i].drained]]
    /\ out' = <<NewSocketOut(NewSockId, timers[i].clientId, "timer")>>
    /\ last' = [op |-> "timer", drained |-> timers[i].drained]
    /\ UNCHANGED <<scenario, options, now, probes, handlers, history, initialized, listening, wsConnections, subscriptions,
                   reconnectAttempts, pendingOperations, requests, quit, sinceOpen>>


\* ------------------------------------------------------- inbound messages
NoSymbol == ""

DataObject(symbol) == [shape |-> "object", symbol |-> symbol]

DataArray(items) == [shape |-> "array", items |-> items]

\* the payloads the upstream sends in this model
DataValues ==
    {DataObject(y) : y \in Symbols \cup {NoSymbol}}
    \cup {DataArray(<<DataObject("AAPL"), DataObject("MSFT")>>),
          DataArray(<<DataObject(NoSymbol)>>)}

Messages ==
    {[type |-> "market_data", data |-> d] : d \in DataValues}
    \cup {[type |-> "subscribed", data |-> DataObject("AAPL")],
          [type |-> "unparsable", data |-> DataObject("AAPL")]}

\* a matcher that overlooks the symbols, which C3 tells from the real one
matchesAnySubscription(data, subscription) == TRUE

\* a selection that overlooks the clientId, which C4 tells from the real one
subscriptionsOfAnyClient(subs, clientId) == subs

dataMatchesSubscription(data, subscription) ==
    IF data.shape = "object"
    THEN data.symbol # NoSymbol /\ data.symbol \in subscription.symbols
    ELSE \E i \in 1..Len(data.items) :
            /\ data.items[i].symbol # NoSymbol
            /\ data.items[i].symbol \in subscription.symbols

MarketDataEvent(subscription, data) ==
    EventOut("market-data",
             [windowId |-> subscription.windowId,
              subscriptionId |-> subscription.subscriptionId,
              stream |-> subscription.stream, data |-> data])

\* the subscriptions forwardMarketData looks at
clientSubscriptions(subs, clientId) == SubsOfClient(subs, clientId)

RECURSIVE FanOut(_, _)
FanOut(subs, data) ==
    IF subs = <<>> THEN <<>>
    ELSE (IF dataMatchesSubscription(data, Head(subs))
          THEN <<MarketDataEvent(Head(subs), data)>> ELSE <<>>)
         \o FanOut(Tail(subs), data)

forwardMarketData(clientId, data) ==
    FanOut(clientSubscriptions(subscriptions, clientId), data)

\* a handler that forwards the data of a frame of any type, which C24 tells
\* from the real one
forwardAnyType(clientId, message) == forwardMarketData(clientId, message.data)

\* a handler that forwards nothing, which C17 tells from the real one
ignoreWebSocketMessage(clientId, message) == <<>>

\* JSON.parse throws on "unparsable"; the switch on message.type
handleWebSocketMessage(clientId, message) ==
    IF message.type = "market_data"
    THEN forwardMarketData(clientId, message.data)
    ELSE <<>>

\* ws.on('message') of a socket that has opened and has not yet closed
Message(s, message) ==
    /\ ~quit
    /\ socks[s].st \in {"OPEN", "CLOSING"}
    /\ socks[s].promise = "resolved"
    /\ message \in scenario.messages
    /\ ArrivalAllowed
    /\ out' = handleWebSocketMessage(socks[s].key, message)
    /\ last' = [op |-> "message", clientId |-> socks[s].key,
                message |-> message]
    /\ history' = Arrived(history, s, message, out')
    /\ UNCHANGED <<scenario, options, now, probes, handlers, initialized, listening, wsConnections, subscriptions,
                   reconnectAttempts, socks, timers, pendingOperations,
                   requests, quit, sinceOpen>>

\* ------------------------------------------------------------- shutdown()
RECURSIVE CloseAll(_, _, _)
CloseAll(sk, ids, by) ==
    IF ids = {} THEN sk
    ELSE LET s == CHOOSE x \in ids : TRUE
         IN  CloseAll(CloseSocket(sk, s, by), ids \ {s}, by)

MappedSockets == {wsConnections[c] : c \in ClientIds} \ {0}

\* the state changes of PolygonBridge.shutdown() on a bridge whose listeners
\* are registered the given number of times: each ipcHandler.off() takes one
\* registration back
ShutdownFrom(registered) ==
    /\ socks' = PruneSocks(CloseAll(socks, MappedSockets, "shutdown"), SubIds)
    /\ wsConnections' = [c \in ClientIds |-> 0]
    /\ subscriptions' = <<>>
    /\ timers' = PruneTimers(timers, SubIds)
    /\ listening' = IF registered > 0 THEN registered - 1 ELSE 0
    /\ initialized' = FALSE
    /\ UNCHANGED <<scenario, options, now, probes, reconnectAttempts>>

ShutdownEffect == ShutdownFrom(listening)

Shutdown ==
    /\ ~quit
    /\ ShutdownEffect
    /\ last' = [op |-> "shutdown", closed |-> MappedSockets,
                waiting |-> {o \in OpIds : requests[o].ipc = "waiting"}]
    /\ out' = <<>>
    /\ UNCHANGED <<pendingOperations, requests, quit, sinceOpen, handlers, history>>


\* ------------------------------------------ IPCHandler: one-shot requests
Sources == {"polygon", "cache", "calculate"}

ReturnOut(op, value) == [kind |-> "return", operationId |-> op, value |-> value]

\* generateOperationId never repeats: operationIds are taken in order
NextOpId(op) == \A o \in OpIds : o < op => requests[o].ipc # "idle"

\* a handler that calls upstream twice for the sources it fetches, which C23
\* tells from the real one
UpstreamCallsTwice(source) == IF source \in {"polygon", "cache"} THEN 2 ELSE 0

\* the fetch calls one run of handleDataRequest makes: one in
\* fetchPolygonData, one in fetchCachedData, none in calculateData and none
\* in the default case of its switch
UpstreamCalls(source) == IF source \in {"polygon", "cache"} THEN 1 ELSE 0

\* a validation that lets every source pass, which C22 tells from the real
\* one
AnySource(source) == TRUE

\* ['polygon', 'cache', 'calculate'].includes(source)
ValidSource(source) == source \in Sources

\* the data:request handler up to its await: validate, add to
\* pendingOperations, emit('data-request') (handleDataRequest runs once for
\* each time it is registered and starts its upstream call),
\* waitForDataResponse
DataRequest(op, source) ==
    /\ ~quit /\ handlers
    /\ requests[op].ipc = "idle" /\ NextOpId(op)
    /\ last' = [op |-> "request", operationId |-> op, source |-> source]
    /\ IF ~ValidSource(source)
       THEN /\ out' = <<ReturnOut(0, "Invalid data source")>>
            /\ UNCHANGED <<pendingOperations, requests>>
       ELSE /\ pendingOperations' = pendingOperations \cup {op}
            /\ requests' = [requests EXCEPT ![op] =
                   [ipc |-> "waiting",
                    bridge |-> IF listening > 0 THEN "fetching" ELSE "none",
                    runs |-> listening,
                    left |-> listening,
                    calls |-> listening * UpstreamCalls(source)]]
            /\ out' = <<>>
    /\ UNCHANGED <<scenario, options, now, probes, handlers, history, initialized, listening, wsConnections, subscriptions,
                   reconnectAttempts, socks, timers, quit, sinceOpen>>

\* the bridge's position once one of its runs for a request has ended
RunEnded(left) == IF left > 1 THEN "fetching" ELSE "done"

\* this.ipcHandler.emit(`data-response-${operationId}`, { success, ... })
ResponseEmitted(op, success) ==
    [kind |-> "data-response", operationId |-> op, success |-> success]

\* a run of handleDataRequest ends: its upstream call has succeeded (ok) or
\* has failed (calculateData makes none and does not fail), and the run emits
\* data-response-{operationId} from its try or from its catch; a handler that still waits is resumed:
\* pendingOperations.delete, return the response
DataResponse(op, ok) ==
    /\ ~quit
    /\ requests[op].bridge = "fetching"
    /\ ok \/ requests[op].calls > 0
    /\ last' = [op |-> "response", operationId |-> op, success |-> ok]
    /\ IF requests[op].ipc = "waiting"
       THEN /\ requests' = [requests EXCEPT ![op].ipc = "responded",
                                            ![op].bridge = RunEnded(requests[op].left),
                                            ![op].left = @ - 1]
            /\ pendingOperations' = pendingOperations \ {op}
            /\ out' = <<ResponseEmitted(op, ok), ReturnOut(op, "response")>>
       ELSE /\ requests' = [requests EXCEPT ![op].bridge = RunEnded(requests[op].left),
                                            ![op].left = @ - 1]
            /\ out' = <<ResponseEmitted(op, ok)>>
            /\ UNCHANGED pendingOperations
    /\ UNCHANGED <<scenario, options, now, probes, handlers, history, initialized, listening, wsConnections, subscriptions,
                   reconnectAttempts, socks, timers, quit, sinceOpen>>

\* emit('data-request') by another emitter than the data:request handler (the
\* integration test does so), with a source that nothing has validated: each
\* registered handleDataRequest starts a run; a run for polygon or cache
\* awaits its upstream call, a run for calculate and a run for a source the
\* switch does not know (its default case throws into the catch) emit their
\* response before the turn ends
Immediate(source) == source \notin {"polygon", "cache"}

DirectRequest(op, source) ==
    /\ ~quit
    /\ requests[op].ipc = "idle" /\ NextOpId(op)
    /\ last' = [op |-> "direct-request", operationId |-> op, source |-> source]
    /\ requests' = [requests EXCEPT ![op] =
           [ipc |-> "direct",
            bridge |-> IF listening = 0 THEN "none"
                       ELSE IF Immediate(source) THEN "done" ELSE "fetching",
            runs |-> listening,
            left |-> IF Immediate(source) THEN 0 ELSE listening,
            calls |-> listening * UpstreamCalls(source)]]
    /\ out' = IF Immediate(source)
              THEN Repeated(<<ResponseEmitted(op, source = "calculate")>>, listening)
              ELSE <<>>
    /\ UNCHANGED <<scenario, options, now, probes, handlers, history, initialized,
                   listening, wsConnections, subscriptions, reconnectAttempts,
                   socks, timers, pendingOperations, quit, sinceOpen>>

\* the 30 s timer of waitForDataResponse: removeListener, reject; the handler's
\* catch returns the failure (pendingOperations.delete is skipped)
RequestTimeout(op) ==
    /\ ~quit
    /\ requests[op].ipc = "waiting"
    /\ requests' = [requests EXCEPT ![op].ipc = "timeout"]
    /\ last' = [op |-> "request-timeout", operationId |-> op]
    /\ out' = <<ReturnOut(op, "Data request timeout")>>
    /\ UNCHANGED <<scenario, options, now, probes, handlers, history, initialized, listening, wsConnections, subscriptions,
                   reconnectAttempts, socks, timers, pendingOperations, quit, sinceOpen>>

\* a cleanup that answers the pending operations but leaves their handlers
\* waiting, which C13 tells from the real one
cleanupLeavingWaiters(rq, pending) == rq

\* IPCHandler.cleanup(): answer every pending operation with the shutting-down
\* failure, clear the set, removeAllListeners
CleanupRequests(rq, pending) ==
    [o \in OpIds |->
        IF o \in pending /\ rq[o].ipc = "waiting"
        THEN [rq[o] EXCEPT !.ipc = "shutdown"] ELSE rq[o]]

RECURSIVE CleanupReturns(_, _)
CleanupReturns(rq, pending) ==
    IF pending = {} THEN <<>>
    ELSE LET o == CHOOSE x \in pending : \A y \in pending : x <= y
         IN  (IF rq[o].ipc = "waiting"
              THEN <<ReturnOut(o, "Application shutting down")>> ELSE <<>>)
             \o CleanupReturns(rq, pending \ {o})

\* app.on('before-quit'): ipcHandler.cleanup(), which removes every listener;
\* polygonBridge.shutdown(); app.exit
BeforeQuit ==
    /\ ~quit
    /\ requests' = CleanupRequests(requests, pendingOperations)
    /\ pendingOperations' = {}
    /\ out' = CleanupReturns(requests, pendingOperations)
    /\ ShutdownFrom(0)
    /\ quit' = TRUE
    /\ handlers' = FALSE
    /\ UNCHANGED <<sinceOpen, history>>
    /\ last' = [op |-> "before-quit", closed |-> MappedSockets,
                waiting |-> {o \in OpIds : requests[o].ipc = "waiting"}]

\* IPCHandler.cleanup() by itself: the ipcMain handlers are removed, the
\* pending operations answered, and removeAllListeners() takes the bridge's
\* three listeners off the emitter too
Cleanup ==
    /\ ~quit /\ handlers
    /\ requests' = CleanupRequests(requests, pendingOperations)
    /\ pendingOperations' = {}
    /\ out' = CleanupReturns(requests, pendingOperations)
    /\ handlers' = FALSE
    /\ listening' = 0
    /\ last' = [op |-> "cleanup",
                waiting |-> {o \in OpIds : requests[o].ipc = "waiting"}]
    /\ UNCHANGED <<scenario, options, now, probes, history, initialized, wsConnections, subscriptions,
                   reconnectAttempts, socks, timers, quit, sinceOpen>>

\* ------------------------------------------------------------ specification
OneMessage == {[type |-> "market_data", data |-> DataObject("AAPL")]}

Window1Subs == {i \in SubIds : WindowOf(i) = 1}

SmallOptions == [maxReconnectAttempts |-> OptMaxReconnectAttempts,
                 reconnectInterval |-> DefaultReconnectInterval]

DefaultOptions == [maxReconnectAttempts |-> DefaultMaxReconnectAttempts,
                   reconnectInterval |-> DefaultReconnectInterval]

Subscribes ==
    \E id \in SubIds :
        HandleDataSubscribe(id, WindowOf(id), StreamOf(id), SymbolsOf(id))

\* Spec: the bridge and its sockets; the requests of window 1, one kind of
\* message, a small maxReconnectAttempts
Init ==
    /\ scenario = [subIds |-> Window1Subs, messages |-> OneMessage,
                   track |-> FALSE, maxTimers |-> MaxTimers]
    /\ options = SmallOptions
    /\ InitBridge

Next ==
    \/ InitializeOk
    \/ Subscribes
    \/ \E id \in SubIds : HandleDataUnsubscribe(id)
    \/ \E s \in SockIds : SocketOpen(s)
    \/ \E s \in SockIds : ConnectTimeout(s)
    \/ \E s \in SockIds : SocketFail(s)
    \/ \E s \in SockIds : SocketClose(s)
    \/ \E s \in SockIds, m \in Messages : Message(s, m)
    \/ \E i \in 1..MaxTimersDefault : TimerFire(i)
    \/ Shutdown

Spec == Init /\ [][Next]_vars

\* SpecTracked: reconnection with its history kept (no messages, no shutdown;
\* a connection attempt that fails does so by SocketFail, the connect timeout
\* is in Spec and SpecDefault)
InitTracked ==
    /\ scenario = [subIds |-> Window1Subs, messages |-> {},
                   track |-> TRUE, maxTimers |-> MaxTimers]
    /\ options = SmallOptions
    /\ InitBridge

NextTracked ==
    \/ InitializeOk
    \/ Subscribes
    \/ \E id \in SubIds : HandleDataUnsubscribe(id)
    \/ \E s \in SockIds : SocketOpen(s)
    \/ \E s \in SockIds : SocketFail(s)
    \/ \E s \in SockIds : SocketClose(s)
    \/ \E i \in 1..MaxTimersDefault : TimerFire(i)

SpecTracked == InitTracked /\ [][NextTracked]_vars

\* SpecFanout: every request of both windows and every kind of message, on
\* connections that open and close
InitFanout ==
    /\ scenario = [subIds |-> SubIds, messages |-> Messages,
                   track |-> FALSE, maxTimers |-> MaxTimers]
    /\ options = SmallOptions
    /\ InitBridge

NextFanout ==
    \/ InitializeOk
    \/ Subscribes
    \/ \E id \in SubIds : HandleDataUnsubscribe(id)
    \/ \E s \in SockIds : SocketOpen(s)
    \/ \E s \in SockIds : SocketClose(s)
    \/ \E s \in SockIds, m \in Messages : Message(s, m)
    \/ \E i \in 1..MaxTimersDefault : TimerFire(i)

SpecFanout == InitFanout /\ [][NextFanout]_vars

\* SpecDefault: the default options, one subscription, connections that fail
InitDefault ==
    /\ scenario = [subIds |-> {1}, messages |-> {},
                   track |-> FALSE, maxTimers |-> MaxTimersDefault]
    /\ options = DefaultOptions
    /\ InitBridge

NextDefault ==
    \/ InitializeOk
    \/ Subscribes
    \/ \E s \in SockIds : SocketOpen(s)
    \/ \E s \in SockIds : ConnectTimeout(s)
    \/ \E s \in SockIds : SocketFail(s)
    \/ \E s \in SockIds : SocketClose(s)
    \/ \E i \in 1..MaxTimersDefault : TimerFire(i)

SpecDefault == InitDefault /\ [][NextDefault]_vars

\* SpecApp: one window's bridge together with the one-shot requests and the
\* application's before-quit handler
InitApp ==
    /\ scenario = [subIds |-> {1}, messages |-> {},
                   track |-> FALSE, maxTimers |-> MaxTimers]
    /\ options = SmallOptions
    /\ InitBridge

NextApp ==
    \/ InitializeOk
    \/ InitializeFail
    \/ Subscribes
    \/ \E id \in SubIds : HandleDataUnsubscribe(id)
    \/ \E s \in SockIds : SocketOpen(s)
    \/ \E s \in SockIds : SocketFail(s)
    \/ \E s \in SockIds : SocketClose(s)
    \/ \E i \in 1..MaxTimersDefault : TimerFire(i)
    \/ Shutdown
    \/ \E op \in OpIds, source \in Sources \cup {"other"} : DataRequest(op, source)
    \/ \E op \in OpIds, ok \in BOOLEAN : DataResponse(op, ok)
    \/ \E op \in OpIds : RequestTimeout(op)
    \/ Cleanup
    \/ BeforeQuit

SpecApp == InitApp /\ [][NextApp]_vars

\* SpecStops: the requests of window 1 and one kind of message, with the
\* record of the subscriptionIds that were unsubscribed
InitStops ==
    /\ scenario = [subIds |-> Window1Subs, messages |-> OneMessage,
                   track |-> FALSE, maxTimers |-> MaxTimers,
                   keep |-> "unsubscribed"]
    /\ options = SmallOptions
    /\ InitBridge

NextStops ==
    \/ InitializeOk
    \/ Subscribes
    \/ \E id \in SubIds : HandleDataUnsubscribe(id)
    \/ \E s \in SockIds : SocketOpen(s)
    \/ \E s \in SockIds : SocketClose(s)
    \/ \E s \in SockIds, m \in Messages : Message(s, m)
    \/ \E i \in 1..MaxTimersDefault : TimerFire(i)

SpecStops == InitStops /\ [][NextStops]_vars

\* SpecOrder: the requests of both windows and market data of two kinds on
\* their connections, with the log of the inbound messages and the
\* market-data events
OrderMessages ==
    {[type |-> "market_data", data |-> d] :
        d \in {DataObject("AAPL"),
               DataArray(<<DataObject("AAPL"), DataObject("MSFT")>>)}}

InitOrder ==
    /\ scenario = [subIds |-> SubIds, messages |-> OrderMessages,
                   track |-> FALSE, maxTimers |-> MaxTimers,
                   keep |-> "log"]
    /\ options = SmallOptions
    /\ InitBridge

NextOrder ==
    \/ InitializeOk
    \/ Subscribes
    \/ \E id \in SubIds : HandleDataUnsubscribe(id)
    \/ \E s \in SockIds : SocketOpen(s)
    \/ \E s \in SockIds, m \in Messages : Message(s, m)

SpecOrder == InitOrder /\ [][NextOrder]_vars

\* SpecSettle: the connection attempts of the subscribe requests of both
\* windows, which open, fail or run into the connection timeout.  The
\* timeout set at PolygonBridge.js:398 fires unless 'open' or 'error'
\* clears it first, hence the weak fairness of ConnectTimeout.
InitSettle ==
    /\ scenario = [subIds |-> SubIds, messages |-> {},
                   track |-> FALSE, maxTimers |-> MaxTimers]
    /\ options = SmallOptions
    /\ InitBridge

NextSettle ==
    \/ InitializeOk
    \/ Subscribes
    \/ \E id \in SubIds : HandleDataUnsubscribe(id)
    \/ \E s \in SockIds : SocketOpen(s)
    \/ \E s \in SockIds : ConnectTimeout(s)
    \/ \E s \in SockIds : SocketFail(s)
    \/ \E s \in SockIds : SocketClose(s)

SpecSettle ==
    /\ InitSettle
    /\ [][NextSettle]_vars
    /\ \A s \in SockIds : WF_vars(ConnectTimeout(s))

\* SpecSend: the requests of window 1 on connections that the peer closes,
\* with the turns in which a socket of the map is no longer open
InitSend ==
    /\ scenario = [subIds |-> Window1Subs, messages |-> {},
                   track |-> FALSE, maxTimers |-> MaxTimers]
    /\ options = SmallOptions
    /\ InitBridge

NextSend ==
    \/ InitializeOk
    \/ Subscribes
    \/ \E id \in SubIds : HandleDataUnsubscribe(id)
    \/ \E s \in SockIds : SocketOpen(s)
    \/ \E s \in SockIds : CloseFrameReceived(s)
    \/ \E s \in SockIds : SocketClose(s)
    \/ \E i \in 1..MaxTimersDefault : TimerFire(i)

SpecSend == InitSend /\ [][NextSend]_vars

\* SpecFrames: the requests of window 1 and inbound frames of every type of
\* the switch, of a type it does not know, and one that is not JSON
OtherFrameTypes ==
    {"connected", "subscribed", "error", "pong", "status", "unparsable"}

OtherFrames ==
    {[type |-> t, data |-> DataObject("AAPL")] : t \in OtherFrameTypes}

InitFrames ==
    /\ scenario = [subIds |-> Window1Subs, messages |-> OtherFrames \cup OneMessage,
                   track |-> FALSE, maxTimers |-> MaxTimers]
    /\ options = SmallOptions
    /\ InitBridge

NextFrames ==
    \/ InitializeOk
    \/ Subscribes
    \/ \E id \in SubIds : HandleDataUnsubscribe(id)
    \/ \E s \in SockIds : SocketOpen(s)
    \/ \E s \in SockIds : SocketClose(s)
    \/ \E s \in SockIds, m \in OtherFrames \cup OneMessage : Message(s, m)
    \/ \E i \in 1..MaxTimersDefault : TimerFire(i)

SpecFrames == InitFrames /\ [][NextFrames]_vars

\* SpecRequests: the one-shot requests on a bridge whose initialize() and
\* shutdown() are called in any order, a second initialize() while the first
\* awaits its probe included
InitRequests ==
    /\ scenario = [subIds |-> {}, messages |-> {},
                   track |-> FALSE, maxTimers |-> MaxTimers]
    /\ options = SmallOptions
    /\ InitBridge

NextRequests ==
    \/ InitializeCall
    \/ ProbePasses
    \/ ProbeFails
    \/ Shutdown
    \/ \E op \in OpIds, source \in Sources \cup {"other"} : DataRequest(op, source)
    \/ \E op \in OpIds, source \in Sources \cup {"other"} : DirectRequest(op, source)
    \/ \E op \in OpIds, ok \in BOOLEAN : DataResponse(op, ok)
    \/ \E op \in OpIds : RequestTimeout(op)
    \/ Cleanup

SpecRequests == InitRequests /\ [][NextRequests]_vars

\* SpecIpc: subscribe requests of window 1 through the data:subscribe
\* handler, for two streams of the table and one outside it, with the ids
\* the handler makes from the window, the stream and the clock
IpcStreams == {"trades", "bars", "ticks"}

IpcSymbols == {{"AAPL"}, {"MSFT"}}

IpcSubIds ==
    {SubscriptionIdAt(1, st, c) : st \in IpcStreams, c \in 0..MaxClock}

InitIpc ==
    /\ scenario = [subIds |-> IpcSubIds, messages |-> {},
                   track |-> FALSE, maxTimers |-> MaxTimers]
    /\ options = SmallOptions
    /\ InitBridge

NextIpc ==
    \/ InitializeOk
    \/ \E st \in IpcStreams, y \in IpcSymbols : DataSubscribe(1, st, y)
    \/ \E id \in IpcSubIds : HandleDataUnsubscribe(id)
    \/ \E s \in SockIds : SocketOpen(s)
    \/ Tick

SpecIpc == InitIpc /\ [][NextIpc]_vars

\* SpecInit: subscribe requests of window 1 through the data:subscribe
\* handler on a bridge whose initialize() and shutdown() are called in any
\* order, a second initialize() while the first awaits its probe included;
\* connection attempts open, fail or run into the connection timeout
InitInit ==
    /\ scenario = [subIds |-> IpcSubIds, messages |-> {},
                   track |-> FALSE, maxTimers |-> MaxTimers]
    /\ options = SmallOptions
    /\ InitBridge

NextInit ==
    \/ InitializeCall
    \/ ProbePasses
    \/ ProbeFails
    \/ Shutdown
    \/ \E st \in IpcStreams : DataSubscribe(1, st, {"AAPL"})
    \/ \E id \in IpcSubIds : HandleDataUnsubscribe(id)
    \/ \E s \in SockIds : SocketOpen(s)
    \/ \E s \in SockIds : ConnectTimeout(s)
    \/ \E s \in SockIds : SocketFail(s)

SpecInit == InitInit /\ [][NextInit]_vars

\* SpecStreams: the requests of window 1 with the stream the run is about,
\* one of the four stream names or another string, on connections that close
\* and are reconnected
Streams == {"trades", "quotes", "bars", "updates", "ticks", "constructor"}

InitStreams ==
    /\ scenario \in {[subIds |-> Window1Subs, messages |-> {},
                      track |-> FALSE, maxTimers |-> MaxTimers,
                      stream |-> st] : st \in Streams}
    /\ options = SmallOptions
    /\ InitBridge

SubscribesStream ==
    \E id \in SubIds :
        HandleDataSubscribe(id, WindowOf(id), scenario.stream, SymbolsOf(id))

NextStreams ==
    \/ InitializeOk
    \/ SubscribesStream
    \/ \E id \in SubIds : HandleDataUnsubscribe(id)
    \/ \E s \in SockIds : SocketOpen(s)
    \/ \E s \in SockIds : SocketClose(s)
    \/ \E i \in 1..MaxTimersDefault : TimerFire(i)

SpecStreams == InitStreams /\ [][NextStreams]_vars


\* ==================================================================== claims
SocksOf(c, states) == {s \in SockIds : socks[s].key = c /\ socks[s].st \in states}

OutIdx == 1..Len(out)

IsFrame(j) == out[j].kind = "frame"

IsEvent(j, name) == out[j].kind = "event" /\ out[j].name = name

IsTimerSet(j) == out[j].kind = "set-timer"

\* ------------------------------------------------------------------ C1
\* C1 (Single-connection-per-key): subscribe requests of one clientId that
\* arrive while it has no connection, the first open still in flight
\* included, make one socket open attempt: never are two sockets that
\* subscribe requests opened for the same clientId connecting at once.
C1_OneOpenAttemptPerKey ==
    \A c \in ClientIds :
        Cardinality({s \in SocksOf(c, {"CONNECTING"}) : socks[s].kind = "subscribe"}) <= 1

\* ------------------------------------------------------------------ C2
\* C2: in every reachable state every clientId has at most one socket that
\* is Connecting or Open, whoever created it (subscribe or the reconnect
\* timer) and whether or not the connection map holds it.
C2_OneLiveSocketPerKey ==
    \A c \in ClientIds : Cardinality(SocksOf(c, {"CONNECTING", "OPEN"})) <= 1

\* ------------------------------------------------------------------ C3
\* the market-data events of the last turn that carry subscriptionId id
EventsFor(id) ==
    {j \in OutIdx : IsEvent(j, "market-data") /\ out[j].payload.subscriptionId = id}

SingleSymbolMessage ==
    /\ last.op = "message"
    /\ last.message.type = "market_data"
    /\ last.message.data.shape = "object"
    /\ last.message.data.symbol \in Symbols

\* C3 (Fan-out completeness): one inbound market_data message for symbol S
\* on a clientId's connection emits exactly one market-data event for each
\* registered subscription of that clientId whose symbols contain S, with
\* that subscription's windowId, subscriptionId and stream, and none for a
\* subscription of that clientId whose symbols exclude S.
C3_FanOutComplete ==
    SingleSymbolMessage =>
        \A i \in 1..Len(subscriptions) :
            LET e == subscriptions[i]
                mine == EventsFor(e.subscriptionId)
            IN  e.clientId = last.clientId =>
                   IF last.message.data.symbol \in e.symbols
                   THEN /\ Cardinality(mine) = 1
                        /\ \A j \in mine :
                              out[j].payload = [windowId |-> e.windowId,
                                                subscriptionId |-> e.subscriptionId,
                                                stream |-> e.stream,
                                                data |-> last.message.data]
                   ELSE mine = {}

\* a message for MSFT reached a clientId with one subscription that has
\* MSFT and one that has not
C3_Witness ==
    /\ SingleSymbolMessage
    /\ \E i, k \in 1..Len(subscriptions) :
          /\ subscriptions[i].clientId = last.clientId
          /\ subscriptions[k].clientId = last.clientId
          /\ last.message.data.symbol \in subscriptions[i].symbols
          /\ last.message.data.symbol \notin subscriptions[k].symbols
          /\ EventsFor(subscriptions[i].subscriptionId) # {}

\* ------------------------------------------------------------------ C4
\* C4: a market_data message received on the connection of clientId A emits
\* no market-data event for a subscription of another clientId, even when
\* that subscription's symbols contain the message's symbol.
C4_FanOutConfined ==
    last.op = "message" =>
        \A i \in 1..Len(subscriptions) :
            subscriptions[i].clientId # last.clientId =>
                EventsFor(subscriptions[i].subscriptionId) = {}

\* a message was fanned out while another clientId had a subscription for
\* the message's symbol
C4_Witness ==
    /\ SingleSymbolMessage
    /\ \E j \in OutIdx : IsEvent(j, "market-data")
    /\ \E i \in 1..Len(subscriptions) :
          /\ subscriptions[i].clientId # last.clientId
          /\ last.message.data.symbol \in subscriptions[i].symbols

\* ------------------------------------------------------------------ C5
\* the channels of each stream, as the upstream protocol names them
ChannelsOfStream(stream) ==
    IF stream = "trades" THEN <<"T">>
    ELSE IF stream = "quotes" THEN <<"Q">>
    ELSE IF stream = "bars" THEN <<"A", "AM">>
    ELSE <<"T", "Q", "A">>

\* the last turn sent, on socket s, a subscribe frame for these symbols and
\* this stream
ReplayedOn(s, symbols, stream) ==
    \E j \in OutIdx :
        /\ IsFrame(j)
        /\ out[j].sock = s
        /\ out[j].rs = "OPEN"
        /\ out[j].msg = [action |-> "subscribe", symbols |-> symbols,
                         channels |-> ChannelsOfStream(stream)]

ReconnectOpened == last.op = "open" /\ last.kind = "reconnect"

\* C5 as stated (Reconnection replay): when the socket of a reconnect opens,
\* a subscribe frame with its symbols and its stream's channels is sent on
\* that socket for every subscription that was registered for the clientId
\* when the connection closed.
C5_ReplayAllAtClose ==
    ReconnectOpened =>
        \A e \in last.atClose : ReplayedOn(last.sock, e.symbols, e.stream)

\* C5 amended: the same, for every subscription that was registered when the
\* connection closed and has stayed registered, neither unsubscribed nor
\* replaced, until the new socket opens.
C5_ReplayStillRegistered ==
    ReconnectOpened =>
        \A id \in last.chain :
            /\ HasSub(subscriptions, id)
            /\ ReplayedOn(last.sock, GetSub(subscriptions, id).symbols,
                          GetSub(subscriptions, id).stream)

\* a reconnect opened its socket with two subscriptions to replay
C5_Witness ==
    /\ ReconnectOpened
    /\ Cardinality(last.chain) = 2
    /\ Cardinality({j \in OutIdx : IsFrame(j)}) = 2

\* ------------------------------------------------------------------ C9
\* C9 (Retry cancellation on drain): a reconnect timer that was pending when
\* an unsubscribe removed its clientId's last subscription is cancelled: it
\* never fires, so it opens no socket, and no subscribe frame is sent for
\* it.
C9_DrainCancelsRetry ==
    /\ last.op = "timer" => ~last.drained
    /\ (ReconnectOpened /\ last.drained) => \A j \in OutIdx : ~IsFrame(j)

\* ------------------------------------------------------------------ C6
\* the timers the last turn set for clientId c after the j-th entry of out
SetAfter(j, c) ==
    Cardinality({i \in OutIdx : i > j /\ IsTimerSet(i) /\ out[i].timer.clientId = c})

\* the place of the timer set at out[j] among the reconnect attempts
\* scheduled for its clientId since that clientId's last successful open
AttemptOrdinal(j) ==
    sinceOpen[out[j].timer.clientId].timers - SetAfter(j, out[j].timer.clientId)

DelayOfAttempt(k) == IF 5000 * k < 30000 THEN 5000 * k ELSE 30000

\* C6 (Backoff delay): with the default configuration the delay of the k-th
\* consecutive reconnect attempt of a clientId, k counted from 1 since its
\* last successful open, is min(5000 * k, 30000) ms for every k in 1..10,
\* whatever the sequence of failed attempts.
C6_BackoffDelay ==
    \A j \in OutIdx :
        IsTimerSet(j) =>
            /\ AttemptOrdinal(j) \in 1..10
            /\ out[j].timer.delay = DelayOfAttempt(AttemptOrdinal(j))

\* the tenth attempt in a row was scheduled, at the cap
C6_Witness ==
    \E j \in OutIdx :
        /\ IsTimerSet(j)
        /\ AttemptOrdinal(j) = 10
        /\ out[j].timer.delay = 30000

\* ------------------------------------------------------------------ C7
\* C7 (Retry cap): with maxReconnectAttempts = 10, no eleventh attempt is
\* scheduled for a clientId after its tenth consecutive attempt has failed,
\* and reconnection-failed is emitted once for the retry cycle, with
\* attempts = 10.
C7_RetryCap ==
    /\ \A c \in ClientIds : sinceOpen[c].timers <= 10 /\ sinceOpen[c].failed <= 1
    /\ \A j \in OutIdx :
          IsEvent(j, "reconnection-failed") => out[j].payload.attempts = 10

\* ------------------------------------------------------------------ C8
\* C8 (Idle-close): when an unsubscribe removes the last subscription of a
\* clientId whose connection is open, the connection is closed and removed
\* from the connection map, and the close event that follows starts no
\* reconnection attempt for the clientId.
C8_IdleClose ==
    /\ (last.op = "unsubscribe" /\ last.drains /\ last.open # 0) =>
          /\ socks[last.open].st = "CLOSING"
          /\ wsConnections[last.clientId] = 0
    /\ (last.op = "close" /\ last.closedBy = "idle") =>
          \A j \in OutIdx : ~IsTimerSet(j) /\ ~IsEvent(j, "reconnection-failed")

\* ----------------------------------------------------------------- C10
\* C10 (Shutdown barrier): after shutdown(), called with N connections open
\* and M one-shot requests pending, no connection is open any more, the
\* subscription registry is empty, every request that was pending has been
\* answered with the shutting-down failure, and no reconnect timer is
\* pending.
C10_ShutdownBarrier ==
    last.op \in {"shutdown", "before-quit"} =>
        /\ \A s \in SockIds : socks[s].st # "OPEN"
        /\ subscriptions = <<>>
        /\ \A o \in last.waiting : requests[o].ipc = "shutdown"
        /\ timers = <<>>

\* ----------------------------------------------------------------- C11
\* initialized is false before the first initialize() and from shutdown()
\* until the next initialize(); before the first initialize() nothing has
\* happened yet.
\* C11 (Nothing survives shutdown): once shutdown() has returned and until
\* initialize() is called again, the connection map and the subscription
\* registry are empty, no socket is opened and no frame is sent, also when a
\* subscribe's connection was still opening or a reconnect timer was pending
\* at the time of the shutdown.
C11_NothingSurvivesShutdown ==
    ~initialized =>
        /\ \A c \in ClientIds : wsConnections[c] = 0
        /\ subscriptions = <<>>
        /\ \A j \in OutIdx : out[j].kind \notin {"new-socket", "frame"}

\* ----------------------------------------------------------------- C12
HasLiveConnection(c) == SocksOf(c, {"CONNECTING", "OPEN"}) # {}

HasPendingRetry(c) == \E i \in 1..Len(timers) : timers[i].clientId = c

RetriesExhausted(c) == reconnectAttempts[c] > options.maxReconnectAttempts

NoReconnectionIn(o) ==
    \A j \in 1..Len(o) :
        /\ o[j].kind # "set-timer"
        /\ ~(o[j].kind = "event" /\ o[j].name = "reconnection-failed")

\* C15: the close of a clientId's socket schedules a reconnect only if the
\* registry holds a subscription of that clientId at the time of the close;
\* with none, no timer is set, the attempt counter is unchanged and no
\* reconnection event is emitted.
C15_ReconnectOnlyWithSubscribers ==
    [][\A s \in SockIds :
          ((SocketClose(s) \/ SocketFail(s))
              /\ SubsOfClient(subscriptions, socks[s].key) = <<>>)
          => /\ timers' = timers
             /\ reconnectAttempts' = reconnectAttempts
             /\ NoReconnectionIn(out')]_vars

\* a socket closed while the registry held no subscription, and nothing was
\* scheduled
C15_Witness ==
    /\ last.op = "close"
    /\ subscriptions = <<>>
    /\ out = <<>>
    /\ timers = <<>>

\* ----------------------------------------------------------------- C18
\* C18: the attempt counter of a clientId goes up by exactly one with each
\* retry that is scheduled and is zero again whenever a socket of the
\* clientId opens: it equals the number of reconnection calls counted since
\* the last open, each timer carries its place among them as its attempt
\* number, and so the first retry after an open is attempt 1.
C18_AttemptCounter ==
    /\ \A c \in ClientIds :
          reconnectAttempts[c] = sinceOpen[c].timers + sinceOpen[c].failed
    /\ \A j \in OutIdx :
          IsTimerSet(j) => out[j].timer.attempts = AttemptOrdinal(j)
    /\ last.op = "open" => reconnectAttempts[socks[last.sock].key] = 0

\* the socket of a retry opened (the counter had counted that retry) and the
\* counter is zero again
C18_Witness ==
    /\ ReconnectOpened
    /\ reconnectAttempts[socks[last.sock].key] = 0
    /\ sinceOpen[socks[last.sock].key].timers = 0

\* ----------------------------------------------------------------- C13
Resolutions == {"responded", "timeout", "shutdown"}

\* what the caller of the request is told by each resolution
ResolutionValue(r) ==
    IF r = "responded" THEN "response"
    ELSE IF r = "timeout" THEN "Data request timeout"
    ELSE "Application shutting down"

ReturnsFor(o, op) ==
    {j \in 1..Len(o) : o[j].kind = "return" /\ o[j].operationId = op}

\* C13 (Exactly-once resolution): the caller of a data request observes one
\* resolution of its operationId: a turn returns to the caller exactly when
\* the request goes from waiting to resolved (by the response, by the 30 s
\* timeout or by the cleanup), it returns once, with the value of that
\* resolution, and a resolved request stays as it is: a response that comes
\* after the timeout or after the cleanup is not delivered.
C13_ExactlyOneResolution ==
    [][\A op \in OpIds :
          /\ Cardinality(ReturnsFor(out', op)) <= 1
          /\ (ReturnsFor(out', op) # {}) <=>
                (requests[op].ipc = "waiting" /\ requests'[op].ipc \in Resolutions)
          /\ \A j \in ReturnsFor(out', op) :
                out'[j].value = ResolutionValue(requests'[op].ipc)
          /\ requests[op].ipc \in Resolutions =>
                requests'[op].ipc = requests[op].ipc]_vars

\* the bridge's response came after the cleanup had answered the request,
\* and was not delivered
C13_Witness ==
    /\ last.op = "response"
    /\ requests[last.operationId].ipc = "shutdown"
    /\ ReturnsFor(out, last.operationId) = {}

\* ----------------------------------------------------------------- C14
\* C14 (Unsubscribe stops delivery): once an unsubscribe request for a
\* subscriptionId has been processed, no market-data event carries that
\* subscriptionId, however the open of the subscribe's connection, the
\* unsubscribe and the inbound messages interleave.
C14_UnsubscribeStopsDelivery ==
    \A j \in OutIdx :
        IsEvent(j, "market-data") =>
            out[j].payload.subscriptionId \notin history.unsubscribed

\* ----------------------------------------------------------------- C16
\* C16: if the health probe fails, initialize() fails and the bridge does not
\* become ready: initialized stays false, no ready event is emitted and the
\* data-request, data-subscribe and data-unsubscribe listeners are not
\* registered.
C16_FailedProbeLeavesBridgeDown ==
    last.op = "initialize-failed" =>
        /\ ~initialized
        /\ listening = 0
        /\ \A j \in OutIdx : ~IsEvent(j, "ready")

\* the probe failed on a bridge that had been shut down with a socket left
C16_Witness ==
    /\ last.op = "initialize-failed"
    /\ \E s \in SockIds : Live(s)

\* ----------------------------------------------------------------- C20
\* the table of the stream names
ChannelTable ==
    [trades |-> <<"T">>, quotes |-> <<"Q">>, bars |-> <<"A", "AM">>,
     updates |-> <<"T", "Q", "A">>]

TableChannels(stream) ==
    IF stream \in DOMAIN ChannelTable THEN ChannelTable[stream] ELSE <<"T">>

SubscribeFrames == {j \in OutIdx : IsFrame(j) /\ out[j].msg.action = "subscribe"}

\* C20: the channels of a stream are those of the table trades -> [T],
\* quotes -> [Q], bars -> [A, AM], updates -> [T, Q, A], and [T] for every
\* other stream value; every subscribe frame, the first one and its replay
\* after a reconnect alike, carries the channels of the subscription's
\* stream.
C20_ChannelsOfStream ==
    \A j \in SubscribeFrames : out[j].msg.channels = TableChannels(scenario.stream)

\* the part that holds: the frame of a subscription and its replays carry
\* the same channels, and off the inherited keys they are the table's
C20_SameChannelsOnReplay ==
    /\ \A j, k \in SubscribeFrames : out[j].msg.channels = out[k].msg.channels
    /\ scenario.stream \notin ObjectPrototypeKeys => C20_ChannelsOfStream

\* ----------------------------------------------------------------- C17
\* the places in the log of the market-data events emitted for the message
\* that arrived at place a, for a subscription
EventsOf(a, subscription) ==
    {p \in 1..Len(history.log) :
        /\ history.log[p].kind = "delivery"
        /\ history.log[p].cause = a
        /\ history.log[p].payload.subscriptionId = subscription.subscriptionId}

\* the symbols a payload names
SymbolsIn(data) ==
    IF data.shape = "object" THEN {data.symbol} \ {NoSymbol}
    ELSE {data.items[i].symbol : i \in 1..Len(data.items)} \ {NoSymbol}

\* the subscriptions registered at both arrivals that match both messages
MatchingBoth(a1, a2) ==
    {e \in history.log[a1].registered \cap history.log[a2].registered :
        /\ SymbolsIn(history.log[a1].message.data) \cap e.symbols # {}
        /\ SymbolsIn(history.log[a2].message.data) \cap e.symbols # {}}

\* two messages arrived on one connection, the one at a1 before the one at a2
ArrivedInOrder(a1, a2) ==
    /\ a1 < a2
    /\ history.log[a1].sock = history.log[a2].sock

\* the events for the message at a carry its data
CarryDataOf(a, e) ==
    \A p \in EventsOf(a, e) :
        history.log[p].payload.data = history.log[a].message.data

\* C17: if two market_data messages arrive on the same connection, m1 before
\* m2, then for every subscription matching both the market-data event for
\* m1 is emitted, and is emitted before the one for m2.
C17_OrderPreserved ==
    \A a1, a2 \in Arrivals(history) :
        ArrivedInOrder(a1, a2) =>
            \A e \in MatchingBoth(a1, a2) :
                /\ EventsOf(a1, e) # {} /\ CarryDataOf(a1, e)
                /\ EventsOf(a2, e) # {} /\ CarryDataOf(a2, e)
                /\ \A p1 \in EventsOf(a1, e), p2 \in EventsOf(a2, e) : p1 < p2

\* two different messages arrived on one connection that has two
\* subscriptions matching both
C17_Witness ==
    \E a1, a2 \in Arrivals(history) :
        /\ ArrivedInOrder(a1, a2)
        /\ history.log[a1].message # history.log[a2].message
        /\ Cardinality(MatchingBoth(a1, a2)) = 2

\* ----------------------------------------------------------------- C19
StoredSockets == {wsConnections[c] : c \in ClientIds} \ {0}

\* an attempt that resolved did so with an open socket that is stored; one
\* that failed left a socket that is closing or gone and is not stored
SettledAsStated ==
    /\ last.op = "open" =>
          /\ socks[last.sock].promise = "resolved"
          /\ socks[last.sock].st = "OPEN"
          /\ last.sock \in StoredSockets
    /\ \A s \in SockIds :
          /\ socks[s].promise = "rejected" =>
                socks[s].st = "CLOSING" /\ s \notin StoredSockets
          /\ socks[s].promise = "pending" =>
                socks[s].st = "CONNECTING" /\ s \notin StoredSockets
          /\ socks[s].st = "NONE" => s \notin StoredSockets

\* C19: every socket open attempt settles: it resolves with a socket in state
\* OPEN, or it fails, by a transport error or by the 5 s connection timeout,
\* and then its socket is not stored in the connection map and is closed.
C19_OpenAttemptSettles ==
    /\ []SettledAsStated
    /\ \A s \in SockIds :
          (socks[s].promise = "pending") ~> (socks[s].promise # "pending")

\* an attempt ran into the connection timeout: its promise is rejected, its
\* socket is closing and is not in the map
C19_Witness ==
    /\ last.op = "connect-timeout"
    /\ \E s \in SockIds :
          /\ socks[s].promise = "rejected"
          /\ socks[s].closedBy = "timeout"
          /\ socks[s].st = "CLOSING"
          /\ wsConnections[socks[s].key] # s

\* ----------------------------------------------------------------- C28
FrameFields == {"action", "symbols", "channels"}

Frames == {j \in OutIdx : IsFrame(j)}

\* C28: every outbound frame, for both actions subscribe and unsubscribe,
\* carries the three fields action, symbols and channels, and channels is a
\* channel list of the stream table.
C28_FrameFields ==
    \A j \in Frames :
        /\ out[j].msg.action \in {"subscribe", "unsubscribe"}
        /\ FrameFields \subseteq DOMAIN out[j].msg
        /\ out[j].msg.channels \in {TableChannels(st) : st \in Streams}

\* the part that holds: the subscribe frames carry the three fields
C28_SubscribeFrameFields ==
    \A j \in SubscribeFrames :
        /\ DOMAIN out[j].msg = FrameFields
        /\ out[j].msg.channels \in {TableChannels(st) : st \in Streams}

\* ----------------------------------------------------------------- C27
\* the map holds a socket for the clientId and that socket is not open
MappedNotOpen(clientId) ==
    /\ wsConnections[clientId] # 0
    /\ socks[wsConnections[clientId]].st # "OPEN"

\* C27: a subscribe or unsubscribe frame is only ever written to a socket
\* that is OPEN at the moment of the write; an unsubscribe that finds no OPEN
\* socket for its clientId writes no frame.
C27_SendOnlyToOpen ==
    /\ \A j \in Frames : out[j].rs = "OPEN"
    /\ (last.op = "unsubscribe" /\ last.open = 0) => Frames = {}

\* a subscribe request found a closing socket in the map, asked for a new
\* one, and its frame went to the new socket once that was open
C27_Witness ==
    /\ last.op = "open" /\ last.kind = "subscribe"
    /\ \E s \in SockIds :
          /\ s # last.sock
          /\ socks[s].key = socks[last.sock].key
          /\ socks[s].st = "CLOSING" /\ socks[s].closedBy = "peer"
    /\ \E j \in Frames : out[j].sock = last.sock /\ out[j].rs = "OPEN"

\* ----------------------------------------------------------------- C30
\* the step is an unsubscribe of a registered subscription whose clientId
\* has another subscription left
UnsubscribeOfShared ==
    /\ last'.op = "unsubscribe"
    /\ SubsOfClient(subscriptions', last'.clientId) # <<>>

\* C30: unsubscribing a subscription while another subscription shares its
\* clientId removes only that registry entry: the connection map and the
\* state of every socket are unchanged, and the other entries stay as they
\* were, in their order.
C30_UnsubscribeKeepsShared ==
    [][UnsubscribeOfShared =>
          /\ wsConnections' = wsConnections
          /\ \A s \in SockIds : socks'[s].st = socks[s].st
          /\ Len(subscriptions') = Len(subscriptions) - 1
          /\ \E id \in SubIdsOf(subscriptions) :
                subscriptions' = MapDelete(subscriptions, id)]_vars

\* a subscription was unsubscribed while another one shares its open
\* connection, which is still open and in the map
C30_Witness ==
    /\ last.op = "unsubscribe"
    /\ SubsOfClient(subscriptions, last.clientId) # <<>>
    /\ last.open # 0
    /\ wsConnections[last.clientId] = last.open
    /\ socks[last.open].st = "OPEN"

\* ----------------------------------------------------------------- C24
\* the step is the arrival of a frame that is not market data
OtherFrameArrives ==
    /\ last'.op = "message"
    /\ last'.message.type # "market_data"

\* C24: an inbound frame of type connected, subscribed, error, pong or of an
\* unknown type, and a frame that is not JSON, emits no market-data event
\* and leaves the subscription registry, the connection map and the attempt
\* counters unchanged.
C24_OnlyMarketDataFansOut ==
    [][OtherFrameArrives =>
          /\ \A j \in 1..Len(out') : out'[j].kind # "event"
          /\ UNCHANGED <<subscriptions, wsConnections, reconnectAttempts>>]_vars

\* a frame of another type that names AAPL arrived for a client with a
\* subscription for AAPL, and nothing was emitted
C24_Witness ==
    /\ last.op = "message"
    /\ last.message.type \in OtherFrameTypes
    /\ \E i \in 1..Len(subscriptions) :
          /\ subscriptions[i].clientId = last.clientId
          /\ "AAPL" \in subscriptions[i].symbols
    /\ out = <<>>

\* ----------------------------------------------------------------- C22
\* the step is a request with a source that is not one of the three
RequestOfUnknownSource ==
    /\ last'.op = "request"
    /\ last'.source \notin {"polygon", "cache", "calculate"}

\* C22: a request whose source is not polygon, cache or calculate fails with
\* the invalid-source error returned to its caller; no operation is started
\* for it and no upstream call is issued.
C22_UnknownSourceFails ==
    [][RequestOfUnknownSource =>
          /\ out' = <<ReturnOut(0, "Invalid data source")>>
          /\ UNCHANGED <<requests, pendingOperations>>]_vars

\* a request with an unknown source was made on a bridge that listens, and
\* failed
C22_Witness ==
    /\ last.op = "request" /\ last.source = "other"
    /\ listening > 0
    /\ \E j \in OutIdx : out[j].kind = "return" /\ out[j].value = "Invalid data source"
    /\ \A o \in OpIds : requests[o].calls = 0

\* ----------------------------------------------------------------- C23
\* C23: each one-shot request causes at most one upstream call, whatever its
\* outcome, and a request that reaches the 30 s ceiling without a response
\* fails with the timeout error to its caller.
C23_NoRetry ==
    /\ \A o \in OpIds : requests[o].calls <= 1
    /\ last.op = "request-timeout" =>
          out = <<ReturnOut(last.operationId, "Data request timeout")>>

\* the part that holds: on a bridge whose listeners are registered once a
\* request causes at most one upstream call
C23_NoRetryOfOneRun ==
    \A o \in OpIds : requests[o].runs <= 1 => requests[o].calls <= 1

\* ----------------------------------------------------------------- C25
\* C25: the lifecycle only moves forward, Uninitialized, Initializing, Ready,
\* ShuttingDown, Shutdown; in particular a bridge that has shut down does not
\* become Ready again: the step after a shutdown() never sets initialized.
C25_LifecycleForward ==
    [][last.op = "shutdown" => ~initialized']_vars

\* the part that holds: shutdown() leaves the bridge not Ready, and only a
\* passed health probe makes it Ready
C25_ReadyOnlyByProbe ==
    [][/\ last'.op = "shutdown" => ~initialized'
       /\ (~initialized /\ initialized') => last'.op = "initialize"]_vars

\* ----------------------------------------------------------------- C21
\* the step is a subscribe request for a stream outside the four
SubscribeOfUnknownStream ==
    /\ last'.op = "data:subscribe"
    /\ last'.stream \notin {"trades", "quotes", "bars", "updates"}

\* C21: a subscribe request whose stream is not one of trades, quotes, bars,
\* updates is rejected: it returns a failure and no subscriptionId, no
\* connection is opened, no frame is sent and no subscription is recorded.
C21_UnknownStreamRejected ==
    [][SubscribeOfUnknownStream =>
          /\ out' = <<SubscribeReturn(FALSE, "Invalid stream type")>>
          /\ last'.subscriptionId = NoSubscriptionId
          /\ UNCHANGED <<socks, wsConnections, subscriptions, timers>>]_vars

\* a request for an unknown stream was rejected on a bridge that listens
C21_Witness ==
    /\ last.op = "data:subscribe" /\ last.stream = "ticks"
    /\ listening > 0
    /\ ~last.success
    /\ out = <<SubscribeReturn(FALSE, "Invalid stream type")>>

\* ----------------------------------------------------------------- C26
\* the step is a subscribe request that succeeds
IssuesSubscriptionId ==
    /\ last'.op = "data:subscribe"
    /\ last'.success

\* C26: subscriptionIds are unique: two subscribe requests that both succeed
\* receive different subscriptionIds, and the id a request receives is not
\* the id of an entry of the registry, so recording it overwrites nothing.
C26_UniqueSubscriptionIds ==
    [][IssuesSubscriptionId =>
          /\ last'.subscriptionId \notin SubIdsOf(subscriptions)
          /\ (last.op = "data:subscribe" /\ last.success) =>
                last'.subscriptionId # last.subscriptionId]_vars

\* the part that holds: a request made at a later clock value than every
\* registered subscription of its window and stream receives a new id
C26_UniqueAcrossClockValues ==
    [][IssuesSubscriptionId =>
          \A i \in 1..Len(subscriptions) :
              (/\ subscriptions[i].windowId = last'.windowId
               /\ subscriptions[i].stream = last'.stream
               /\ subscriptions[i].subscriptionId[3] < now)
                 => subscriptions[i].subscriptionId # last'.subscriptionId]_vars

\* ----------------------------------------------------------------- C29
\* the step is a subscribe request that the bridge handles while the map
\* holds an open socket for the request's clientId
SubscribeOnOpenConnection ==
    /\ IssuesSubscriptionId
    /\ listening > 0
    /\ UsableSocket(ClientIdOf(last'.windowId))

FramesIn(o) == {j \in 1..Len(o) : o[j].kind = "frame"}

\* the request opened no socket and sent one subscribe frame, on the socket
\* of the map
SentOnExistingSocket ==
    /\ \A j \in 1..Len(out') : out'[j].kind # "new-socket"
    /\ \A s \in SockIds : socks'[s].st = socks[s].st
    /\ Cardinality(FramesIn(out')) = 1
    /\ \A j \in FramesIn(out') :
          /\ out'[j].sock = wsConnections[ClientIdOf(last'.windowId)]
          /\ out'[j].msg.action = "subscribe"

\* C29: a subscribe request for a clientId that already has an open
\* connection opens no new socket, sends exactly one subscribe frame on the
\* existing socket and adds exactly one registry entry.
C29_Multiplexed ==
    [][SubscribeOnOpenConnection =>
          /\ SentOnExistingSocket
          /\ Len(subscriptions') = Len(subscriptions) + 1]_vars

\* the part that holds: no new socket, one frame on the existing socket, and
\* the request's entry is in the registry afterwards
C29_SharesSocket ==
    [][SubscribeOnOpenConnection =>
          /\ SentOnExistingSocket
          /\ HasSub(subscriptions', last'.subscriptionId)]_vars

\* ------------------------------------------------------------------ C31
TimersOf(c) == {i \in 1..Len(timers) : timers[i].clientId = c}

TimersSetIn(o) == {j \in 1..Len(o) : o[j].kind = "set-timer"}

\* C31, first part: every clientId has at most one reconnect timer pending
\* in every reachable state.
C31_OneTimerPerKey == \A c \in ClientIds : Cardinality(TimersOf(c)) <= 1

\* C31, second part: one failed connection attempt schedules at most one
\* further attempt: the turn in which a socket that never opened reports its
\* error and its close sets at most one timer.
C31_OneTimerPerFailure ==
    last.op = "fail" => Cardinality(TimersSetIn(out)) <= 1

\* ------------------------------------------------------------------ C32
\* socket s was closed by an idle close and another socket is now the
\* connection of its clientId
StaleSocket(s) ==
    /\ socks[s].st = "CLOSING"
    /\ socks[s].closedBy = "idle"
    /\ wsConnections[socks[s].key] \notin {0, s}
    /\ socks[wsConnections[socks[s].key]].st = "OPEN"

\* the close event of socket s is handled in this step
ClosesIn(s) == socks[s].st # "NONE" /\ socks'[s].st = "NONE" /\ last'.op = "close"

\* C32: the close event of a socket that an idle close closed and that is
\* no longer the connection of its clientId leaves the newer socket in the
\* connection map and sets no reconnect timer.
C32_StaleCloseIgnored ==
    [][\A s \in SockIds :
          StaleSocket(s) /\ ClosesIn(s) =>
              /\ wsConnections'[socks[s].key] = wsConnections[socks[s].key]
              /\ TimersSetIn(out') = {}]_vars

\* ------------------------------------------------------------------ C33
\* the subscriptions of the clientId of socket s that are in the registry
RegisteredFor(s) == SeqToSet(SubsOfClient(subscriptions, socks[s].key))

\* C33: when the socket of a reconnect opens for a clientId that still has
\* subscriptions, every subscribe frame sent on it is the frame of a
\* subscription of its clientId that is in the registry at that time; none
\* is sent for a subscription that was unsubscribed while the timer was
\* pending.
C33_ReplayOnlyRegistered ==
    (ReconnectOpened /\ RegisteredFor(last.sock) # {}) =>
        \A j \in SubscribeFrames :
            \E e \in RegisteredFor(last.sock) :
                out[j].msg = SubscribeMessage(e.symbols, e.stream)

\* ------------------------------------------------------------------ C34
CreatedFor(o, id) ==
    {j \in 1..Len(o) : /\ o[j].kind = "event"
                       /\ o[j].name = "subscription-created"
                       /\ o[j].payload.subscriptionId = id}

ErrorsFor(o, id) ==
    {j \in 1..Len(o) : /\ o[j].kind = "event"
                       /\ o[j].name = "subscription-error"
                       /\ o[j].payload.subscriptionId = id}

\* a subscribe frame precedes the k-th entry of o
FrameSentBefore(o, k) ==
    \E j \in 1..Len(o) :
        j < k /\ o[j].kind = "frame" /\ o[j].msg.action = "subscribe"

\* the step ends the handling of a subscribe request for id: the bridge ran
\* the handler without waiting for a socket, or the socket the handler
\* waited for opens, fails or times out
EndsHandlingOf(id) ==
    \/ /\ last'.op = "data:subscribe"
       /\ last'.success /\ last'.subscriptionId = id
       /\ listening > 0
       /\ \A j \in 1..Len(out') : out'[j].kind # "new-socket"
    \/ \E s \in SockIds :
          /\ socks[s].kind = "subscribe"
          /\ socks[s].promise = "pending"
          /\ socks'[s].promise # "pending"
          /\ socks[s].req.subscriptionId = id

\* C34: the handling of a subscribe request ends with exactly one event for
\* its subscriptionId: subscription-created, with the subscription in the
\* registry and its subscribe frame sent before, or subscription-error,
\* with the registry unchanged; no step emits both or two of one kind.
C34_OneOutcome ==
    [][\A id \in scenario.subIds :
          LET created == Cardinality(CreatedFor(out', id))
              errors == Cardinality(ErrorsFor(out', id))
          IN  /\ created + errors <= 1
              /\ EndsHandlingOf(id) => created + errors = 1
              /\ created = 1 =>
                    /\ HasSub(subscriptions', id)
                    /\ \A k \in CreatedFor(out', id) : FrameSentBefore(out', k)
              /\ errors = 1 => subscriptions' = subscriptions]_vars

\* ------------------------------------------------------------------ C35
ResponsesIn(o, op) ==
    {j \in 1..Len(o) : o[j].kind = "data-response" /\ o[j].operationId = op}

\* the data-response events emitted so far for an operationId: one by each
\* run of handleDataRequest that has ended
Emissions(op) == requests[op].runs - requests[op].left

\* C35: a data-request event that the bridge handles has at most one
\* data-response event emitted for its operationId, and exactly one once
\* the bridge is done with it, whatever the source and the upstream outcome.
C35_OneResponse ==
    \A op \in OpIds :
        requests[op].runs > 0 =>
            /\ Emissions(op) <= 1
            /\ requests[op].bridge = "done" => Emissions(op) = 1

\* the part that holds: every run of handleDataRequest emits exactly one
\* data-response event when it ends, and no other step emits one
C35_OneResponsePerRun ==
    [][\A op \in OpIds :
          /\ Cardinality(ResponsesIn(out', op)) = Emissions(op)' - Emissions(op)
          /\ requests'[op].bridge = "done" => Emissions(op)' = requests'[op].runs]_vars

\* ------------------------------------------------------------------ C36
\* C36: pendingOperations holds an operationId exactly while the request's
\* handler waits for its response: the id is in the set from the turn that
\* forwards the request until the turn that resolves it, by the response,
\* by the 30 s timeout or by the cleanup.
C36_PendingWhileUnresolved ==
    \A op \in OpIds : op \in pendingOperations <=> requests[op].ipc = "waiting"

\* the part that holds: a waiting request is in the set, and a request
\* resolved by its response or by the cleanup is not
C36_PendingUnlessTimedOut ==
    \A op \in OpIds :
        /\ requests[op].ipc = "waiting" => op \in pendingOperations
        /\ requests[op].ipc \in {"idle", "direct", "responded", "shutdown"} =>
              op \notin pendingOperations

\* ------------------------------------------------------------------ C37
\* the clientIds for which the last turn emitted reconnection-failed
FailedIn(o) ==
    {o[j].payload.clientId :
        j \in {k \in 1..Len(o) : o[k].kind = "event" /\ o[k].name = "reconnection-failed"}}

\* C37, the end of a reconnect cycle that failed: when reconnection-failed
\* has been emitted for a clientId, no reconnect timer of that clientId is
\* pending.
C37_NoTimerAfterFailed == \A c \in FailedIn(out) : TimersOf(c) = {}

\* ------------------------------------------------------------------ C38
\* the step handles an unsubscribe request whose subscriptionId is not in
\* the registry
UnsubscribeOfUnknown ==
    /\ last'.op \in {"unsubscribe", "unsubscribe-unknown"}
    /\ ~HasSub(subscriptions, last'.subscriptionId)

\* C38: an unsubscribe request with a subscriptionId that the registry does
\* not hold sends no frame, closes no socket and leaves the registry, the
\* connection map, the attempt counters and the timers as they are.
C38_UnknownUnsubscribeNoOp ==
    [][UnsubscribeOfUnknown =>
          /\ out' = <<>>
          /\ UNCHANGED <<subscriptions, wsConnections, reconnectAttempts,
                         socks, timers>>]_vars

\* an unknown subscriptionId was unsubscribed while its window had a
\* subscription on an open connection
C38_Witness ==
    /\ last.op = "unsubscribe-unknown"
    /\ \E i \in 1..Len(subscriptions) :
          /\ subscriptions[i].windowId = WindowOf(last.subscriptionId)
          /\ UsableSocket(subscriptions[i].clientId)

\* ------------------------------------------------------------------ C39
\* C39, the listeners: the bridge's three listeners are registered on the
\* ipcHandler at most once at any time, so that one event runs each handler
\* once.
C39_RegisteredOnce == listening <= 1

\* C39, the ready event: a bridge that is Ready does not emit ready again
\* before it has been shut down.
C39_ReadyOncePerPeriod ==
    [][initialized =>
          \A j \in 1..Len(out') :
              ~(out'[j].kind = "event" /\ out'[j].name = "ready")]_vars

====
